---- MODULE Spec2Model ----
(***************************************************************************)
(* Model of host.js, the Koa application that serves the Chrome Dev Summit *)
(* site: the static mounts, the /sw.js middleware, the template-engine     *)
(* middleware, the fixed routes (/schedule.json, the verification file,    *)
(* /sitemap.xml), the flat handler that resolves (path, rest) to a section *)
(* page or an AMP popup, the AMP CSS cache and mountUrl.                   *)
(*                                                                         *)
(* JavaScript runs one handler at a time and switches between requests     *)
(* only at an await.  Each middleware is one action; the flat handler is   *)
(* two: Flat runs it up to `await less.render` (or to its end when it does *)
(* not compile), LessDone runs it from the resumption to the render call.  *)
(* The collaborators (koa-send, koa-static, koa-hbs, less) are taken to    *)
(* fulfil their promises.                                                  *)
(***************************************************************************)
EXTENDS Integers, Sequences, FiniteSets, TLC

VARIABLES isProd, prodAmpCss, fallbackProdAmpCss, req, lessCalls, slotWrites, mu

vars == <<isProd, prodAmpCss, fallbackProdAmpCss, req, lessCalls, slotWrites, mu>>

\* Number of requests the process handles in one behaviour.
NReq == 2
\* Longest URL (in characters) given to mountUrl.
MaxUrlLen == 3

Req == 1..NReq

(***************************************************************************)
(* Values                                                                  *)
(***************************************************************************)

\* JavaScript strings that the code inspects character by character are
\* sequences of one-character strings.
Str_42 == <<"4", "2">>
Str_99 == <<"9", "9">>
Str_jake == <<"j", "a", "k", "e">>
Str_both == <<"b", "o", "t", "h">>
Str_x == <<"_", "x">>
Str_n == <<"_", "n">>
Str_constructor == <<"c", "o", "n", "s", "t", "r", "u", "c", "t", "o", "r">>

\* A JavaScript value that may be undefined: the css strings and buffers.
CssUndefined == [kind |-> "undefined"]
\* fs.readFileSync without an encoding returns a Buffer.
CssBuffer == [kind |-> "buffer"]
\* result.css of less.render: the compiled stylesheet, a string.
CssCompiled == [kind |-> "string"]

\* The value of a property lookup: undefined, a record of the dataset, or a
\* function inherited from Object.prototype.
Undefined == [kind |-> "undefined", name |-> ""]

\* `rest` as the router hands it over: undefined, or a string.
NoRest == [def |-> FALSE, s |-> <<>>]
Some(s) == [def |-> TRUE, s |-> s]


(***************************************************************************)
(* Startup: the dataset, the policy header, the section list               *)
(***************************************************************************)

\* schedule.json: the sessions and speakers maps.  "both" is an id of a
\* session and of a speaker, "_x" is an underscore id of a session.
sessions ==
  (Str_42 :> [kind |-> "object", name |-> "Talk"]) @@
  (Str_both :> [kind |-> "object", name |-> "Panel"]) @@
  (Str_x :> [kind |-> "object", name |-> "Hidden"])

speakers ==
  (Str_jake :> [kind |-> "object", name |-> "Jake"]) @@
  (Str_both :> [kind |-> "object", name |-> "Panelist"])

\* The maps come from require() of a JSON file: they are plain objects, and
\* a lookup of a name they do not hold goes on to Object.prototype.
ObjectPrototype ==
  (Str_constructor :> [kind |-> "function", name |-> "Object"])

\* obj[key]
Get(obj, key) ==
  IF key \in DOMAIN obj THEN obj[key]
  ELSE IF key \in DOMAIN ObjectPrototype THEN ObjectPrototype[key]
  ELSE Undefined

\* !data is false exactly for these values (objects and functions are truthy).
Truthy(v) == v.kind # "undefined"

\* policy(isProd): one header string per mode.
policy(prod) == IF prod THEN "policy-prod" ELSE "policy-dev"

policyHeader == policy(isProd)

sourcePrefix == IF isProd THEN "res" ELSE "src"

\* `${sourcePrefix}/sw.js`
SwFile == IF sourcePrefix = "res" THEN "res/sw.js" ELSE "src/sw.js"

\* The entries of the sections directory: first character, name without the
\* last five characters, and whether the name ends with ".html".
SectionFiles ==
  { [ch |-> "i", stem |-> "index", html |-> TRUE],
    [ch |-> "s", stem |-> "schedule", html |-> TRUE],
    [ch |-> "_", stem |-> "_amp-session", html |-> TRUE],
    [ch |-> "_", stem |-> "_amp-speaker", html |-> TRUE],
    [ch |-> "_", stem |-> "_sitemap", html |-> TRUE],
    [ch |-> ".", stem |-> ".draft", html |-> TRUE],
    [ch |-> "n", stem |-> "n", html |-> FALSE] }

sections ==
  { (IF f.stem = "index" THEN "" ELSE f.stem) :
      f \in { g \in SectionFiles : g.html /\ g.ch # "_" /\ g.ch # "." } }

(***************************************************************************)
(* Pieces of the flat handler                                              *)
(***************************************************************************)

\* if (rest)
RestGiven(rest) == rest.def /\ Len(rest.s) > 0

\* rest.startsWith('_')
StartsWithUnderscore(s) == Len(s) > 0 /\ s[1] = "_"

\* Faulty variant: the section check is left out.
IsSectionAlways(path) == TRUE

\* sections.indexOf(path) !== -1
IsSection(path) == path \in sections

\* Faulty variant: the speaker lookup comes first.
LookupEntitySpeakerFirst(rest) ==
  IF Truthy(Get(speakers, rest))
  THEN [data |-> Get(speakers, rest), path |-> "_amp-speaker",
        bodyClass |-> "speaker-popup"]
  ELSE [data |-> Get(sessions, rest), path |-> "_amp-session",
        bodyClass |-> "schedule-popup"]

\* The session lookup, then the speaker lookup when no session was found.
LookupEntity(rest) ==
  IF Truthy(Get(sessions, rest))
  THEN [data |-> Get(sessions, rest), path |-> "_amp-session",
        bodyClass |-> "schedule-popup"]
  ELSE [data |-> Get(speakers, rest), path |-> "_amp-speaker",
        bodyClass |-> "speaker-popup"]

\* if (!data || rest.startsWith('_')) return next();
Declines(data, rest) == ~Truthy(data) \/ StartsWithUnderscore(rest)

\* Faulty variant: the fallback slot is not read.
CssLookupProdOnly(prodCss, fallback) == prodCss

\* prodAmpCss || fallbackProdAmpCss
CssLookup(prodCss, fallback) ==
  IF prodCss.kind # "undefined" THEN prodCss ELSE fallback

\* Faulty variant: the compiled stylesheet is never saved.
PersistsNever(prod) == FALSE

\* Faulty variant: the compiled stylesheet is saved in every mode.
PersistsAlways(prod) == TRUE

\* if (isProd) { ... fallbackProdAmpCss = css; }
PersistsCss(prod) == prod

\* The scope of a section page: the fields a popup overrides, unset.
SectionScope(path) ==
  [layout |-> "devsummit", path |-> path, id |-> <<>>, bodyClass |-> "",
   title |-> "", payload |-> Undefined, styles |-> CssUndefined]

\* Faulty variant: scope.styles is not assigned.
AmpScopeNoStyles(scope, rest, bodyClass, data, css) ==
  [scope EXCEPT !.layout = "amp", !.id = rest, !.bodyClass = bodyClass,
                !.title = data.name, !.payload = data]

\* scope.layout = 'amp'; ... scope.styles = css;
AmpScope(scope, rest, bodyClass, data, css) ==
  [scope EXCEPT !.layout = "amp", !.id = rest, !.bodyClass = bodyClass,
                !.title = data.name, !.payload = data, !.styles = css]


(***************************************************************************)
(* Requests                                                                *)
(***************************************************************************)

\* ctx.path of the requests: the four fixed routes, a file under a static
\* mount of each mode, and a page URL.
CtxPaths ==
  { "/sw.js", "/schedule.json", "/googlec6dfdf23945d0d0c.html", "/sitemap.xml",
    "/res/site.js", "/static/logo.png", "/page" }

\* The mount prefix a ctx.path starts with, "" when it starts with none.
MountPrefix(p) ==
  IF p = "/res/site.js" THEN "/res"
  ELSE IF p = "/static/logo.png" THEN "/static"
  ELSE ""

\* The prefixes mounted at startup.
Mounts == IF isProd THEN {"/res"} ELSE {"/static", "/src", "/node_modules"}

\* The `path` arguments the router hands to the flat handler.
Paths == {"", "schedule", "_amp-session"}

\* The `rest` arguments the router hands to the flat handler.
Rests ==
  { NoRest, Some(<<>>), Some(Str_42), Some(Str_jake), Some(Str_both),
    Some(Str_x), Some(Str_n), Some(Str_99), Some(Str_constructor) }

\* flat(): the (path, rest) the router derives from ctx.path.  A page URL
\* stands for every /{section} and /{section}/{id}; the first segment of a
\* static file's URL is the name of its mount.
RouterArgs(p) ==
  IF p = "/page" THEN Paths \X Rests
  ELSE IF p = "/res/site.js" THEN {<<"res", Some(<<"s">>)>>}
  ELSE IF p = "/static/logo.png" THEN {<<"static", Some(<<"l">>)>>}
  ELSE {<<"", NoRest>>}

NoLocals == [data |-> Undefined, path |-> "", bodyClass |-> ""]

NoScope ==
  [layout |-> "", path |-> "", id |-> <<>>, bodyClass |-> "",
   title |-> "", payload |-> Undefined, styles |-> CssUndefined]

\* A request before it arrives.  Three fields record history: lessInvoked
\* (the request called less.render), wroteSlot (it assigned the cache slot)
\* and after (the requests answered before its flat handler was called).
NewRequest ==
  [pc |-> "idle", ctxPath |-> "", trail |-> <<>>, outcomes |-> <<>>,
   sent |-> "", ctype |-> "", header |-> "", path |-> "", rest |-> NoRest,
   locals |-> NoLocals, view |-> "", scope |-> NoScope, renderHeader |-> "",
   lessInvoked |-> FALSE, wroteSlot |-> FALSE, after |-> {}]

\* A middleware is entered.
Enter(rq, name) == [rq EXCEPT !.trail = Append(@, name)]

\* return next(): control goes to the middleware at position pc.
CallNext(rq, pc) == [rq EXCEPT !.pc = pc]

\* return next() of the last middleware: Koa's fallback answers.
PassThrough(rq) ==
  [rq EXCEPT !.pc = "done", !.outcomes = Append(@, "next")]

\* return send(ctx, file)
Send(rq, file) ==
  [rq EXCEPT !.pc = "done", !.outcomes = Append(@, "send"), !.sent = file]

\* ctx.render(view, scope): the response is built with the headers set so far.
Render(rq, view, scope) ==
  [rq EXCEPT !.pc = "done", !.outcomes = Append(@, "render"), !.view = view,
             !.scope = scope, !.renderHeader = rq.header]

\* Faulty variant: the header is not set.
SetFeaturePolicyNot(rq) == rq

\* ctx.set('Feature-Policy', policyHeader)
SetFeaturePolicy(rq) == [rq EXCEPT !.header = policyHeader]

\* path || 'index'
ViewName(path) == IF path = "" THEN "index" ELSE path

\* A request comes in.  Requests are numbered in their order of arrival.
Arrive(r) ==
  /\ req[r].pc = "idle"
  /\ \A q \in Req : q < r => req[q].pc # "idle"
  /\ \E p \in CtxPaths :
       req' = [req EXCEPT ![r] = [NewRequest EXCEPT !.pc = "static", !.ctxPath = p]]
  /\ UNCHANGED <<isProd, prodAmpCss, fallbackProdAmpCss, lessCalls, slotWrites, mu>>

\* The static mounts: a file found under a mounted prefix is sent, every
\* other request goes on.
StaticMounts(r) ==
  /\ req[r].pc = "static"
  /\ LET rq == Enter(req[r], "static") IN
       \E found \in BOOLEAN :
         req' = [req EXCEPT ![r] =
                   IF MountPrefix(rq.ctxPath) \in Mounts /\ found
                   THEN Send(rq, rq.ctxPath)
                   ELSE CallNext(rq, "sw")]
  /\ UNCHANGED <<isProd, prodAmpCss, fallbackProdAmpCss, lessCalls, slotWrites, mu>>

\* Faulty variant: /sw.js is not matched and every request goes on.
SwMiddlewareFallsThrough(r) ==
  /\ req[r].pc = "sw"
  /\ req' = [req EXCEPT ![r] = CallNext(Enter(req[r], "sw"), "hbs")]
  /\ UNCHANGED <<isProd, prodAmpCss, fallbackProdAmpCss, lessCalls, slotWrites, mu>>

\* Serve sw.js from top-level.
SwMiddleware(r) ==
  /\ req[r].pc = "sw"
  /\ LET rq == Enter(req[r], "sw") IN
       req' = [req EXCEPT ![r] =
                 IF rq.ctxPath = "/sw.js"
                 THEN Send(rq, SwFile)
                 ELSE CallNext(rq, "hbs")]
  /\ UNCHANGED <<isProd, prodAmpCss, fallbackProdAmpCss, lessCalls, slotWrites, mu>>

\* hbs.middleware: installs ctx.render and goes on.
HbsMiddleware(r) ==
  /\ req[r].pc = "hbs"
  /\ req' = [req EXCEPT ![r] = CallNext(Enter(req[r], "hbs"), "routes")]
  /\ UNCHANGED <<isProd, prodAmpCss, fallbackProdAmpCss, lessCalls, slotWrites, mu>>

\* /schedule.json, the verification file, /sitemap.xml.
FixedRoutes(r) ==
  /\ req[r].pc = "routes"
  /\ LET rq == Enter(req[r], "routes") IN
       req' = [req EXCEPT ![r] =
                 IF rq.ctxPath = "/schedule.json"
                 THEN Send(rq, "schedule.json")
                 ELSE IF rq.ctxPath = "/googlec6dfdf23945d0d0c.html"
                 THEN Send(rq, "googlec6dfdf23945d0d0c.html")
                 ELSE IF rq.ctxPath = "/sitemap.xml"
                 THEN Render([rq EXCEPT !.ctype = "text/xml"], "_sitemap", NoScope)
                 ELSE CallNext(rq, "flat")]
  /\ UNCHANGED <<isProd, prodAmpCss, fallbackProdAmpCss, lessCalls, slotWrites, mu>>

\* The flat handler, from its call to its first suspension or its end.
Flat(r) ==
  /\ req[r].pc = "flat"
  /\ \E a \in RouterArgs(req[r].ctxPath) :
       LET path == a[1]
           rest == a[2]
           rq == [Enter(req[r], "flat") EXCEPT
                    !.path = path, !.rest = rest,
                    !.after = {q \in Req : req[q].pc = "done"}]
           found == LookupEntity(rest.s)
           css == CssLookup(prodAmpCss, fallbackProdAmpCss)
       IN
         IF ~IsSection(path)
         THEN /\ req' = [req EXCEPT ![r] = PassThrough(rq)]
              /\ lessCalls' = lessCalls
         ELSE IF ~RestGiven(rest)
         THEN /\ req' = [req EXCEPT ![r] =
                   Render(SetFeaturePolicy(rq), ViewName(path), SectionScope(path))]
              /\ lessCalls' = lessCalls
         ELSE IF Declines(found.data, rest.s)
         THEN /\ req' = [req EXCEPT ![r] = PassThrough(rq)]
              /\ lessCalls' = lessCalls
         ELSE IF css = CssUndefined
         THEN /\ req' = [req EXCEPT ![r] =
                   [rq EXCEPT !.pc = "less", !.locals = found, !.lessInvoked = TRUE]]
              /\ lessCalls' = lessCalls + 1
         ELSE /\ req' = [req EXCEPT ![r] =
                   Render(SetFeaturePolicy(rq), ViewName(found.path),
                          AmpScope(SectionScope(path), rest.s, found.bodyClass,
                                   found.data, css))]
              /\ lessCalls' = lessCalls
  /\ UNCHANGED <<isProd, prodAmpCss, fallbackProdAmpCss, slotWrites, mu>>

\* The flat handler, from the result of less.render to the render call.
LessDone(r) ==
  /\ req[r].pc = "less"
  /\ LET rq == req[r]
         css == CssCompiled
     IN
       /\ IF PersistsCss(isProd)
          THEN /\ fallbackProdAmpCss' = css
               /\ slotWrites' = slotWrites + 1
          ELSE UNCHANGED <<fallbackProdAmpCss, slotWrites>>
       /\ req' = [req EXCEPT ![r] =
            Render(SetFeaturePolicy([rq EXCEPT !.wroteSlot = PersistsCss(isProd)]),
                   ViewName(rq.locals.path),
                   AmpScope(SectionScope(rq.path), rq.rest.s, rq.locals.bodyClass,
                            rq.locals.data, css))]
  /\ UNCHANGED <<isProd, prodAmpCss, lessCalls, mu>>


(***************************************************************************)
(* mountUrl                                                                *)
(***************************************************************************)

\* mountUrl only feeds base and canonicalUrl of the scope and the sitemap's
\* sitePrefix; it reads and writes no shared state, so it is specified on its
\* own (SpecMount) and the request actions leave those fields out.

\* The characters of the URLs given to mountUrl.
UrlChars == {"/", "a"}

\* The strings of at most n characters.
Strings(n) == UNION { [1..k -> UrlChars] : k \in 0..n }

\* s.slice(0, index)
Slice0(s, index) == SubSeq(s, 1, index)

\* Whether t is the part of s that starts at (0-based) position k.
OccursAt(s, t, k) == k + Len(t) <= Len(s) /\ SubSeq(s, k + 1, k + Len(t)) = t

RECURSIVE ScanForward(_, _, _)
ScanForward(s, t, k) ==
  IF k > Len(s) - Len(t) THEN -1
  ELSE IF OccursAt(s, t, k) THEN k
  ELSE ScanForward(s, t, k + 1)

RECURSIVE ScanBackward(_, _, _)
ScanBackward(s, t, k) ==
  IF k < 0 THEN -1
  ELSE IF OccursAt(s, t, k) THEN k
  ELSE ScanBackward(s, t, k - 1)

\* Faulty variant of lastIndexOf: s.indexOf(t), the first occurrence.
IndexOf(s, t) == ScanForward(s, t, 0)

\* s.lastIndexOf(t): the search runs from the last position t fits at down
\* to position 0.
LastIndexOf(s, t) == ScanBackward(s, t, Len(s) - Len(t))

\* mountUrl(ctx), for ctx.originalUrl (undefined or a string) and ctx.url.
mountUrl(originalUrl, url) ==
  IF ~originalUrl.def THEN <<>>
  ELSE LET index == LastIndexOf(originalUrl.s, url) IN
         IF index = -1 THEN <<>> ELSE Slice0(originalUrl.s, index)

\* No call of mountUrl in progress.
NoCall == [pc |-> "none", originalUrl |-> NoRest, url |-> <<>>, result |-> <<>>]

\* mountUrl is called and returns.
MountUrlCall ==
  /\ mu.pc = "called"
  /\ mu' = [mu EXCEPT !.pc = "returned",
                      !.result = mountUrl(mu.originalUrl, mu.url)]
  /\ UNCHANGED <<isProd, prodAmpCss, fallbackProdAmpCss, req, lessCalls, slotWrites>>

(***************************************************************************)
(* Specifications                                                          *)
(***************************************************************************)

\* readProdAmpCss(): the file's content, or undefined when reading throws.
ReadProdAmpCssResults == {CssBuffer, CssUndefined}

\* The process after startup, no request received yet.
Init ==
  /\ isProd \in BOOLEAN
  /\ prodAmpCss \in (IF isProd THEN ReadProdAmpCssResults ELSE {CssUndefined})
  /\ fallbackProdAmpCss = CssUndefined
  /\ req = [r \in Req |-> NewRequest]
  /\ lessCalls = 0
  /\ slotWrites = 0
  /\ mu = NoCall

Next ==
  \E r \in Req :
    \/ Arrive(r)
    \/ StaticMounts(r)
    \/ SwMiddleware(r)
    \/ HbsMiddleware(r)
    \/ FixedRoutes(r)
    \/ Flat(r)
    \/ LessDone(r)

Spec == Init /\ [][Next]_vars

\* mountUrl alone, on every pair of URLs within the bound.
InitMount ==
  /\ isProd = FALSE
  /\ prodAmpCss = CssUndefined
  /\ fallbackProdAmpCss = CssUndefined
  /\ req = [r \in Req |-> NewRequest]
  /\ lessCalls = 0
  /\ slotWrites = 0
  /\ mu \in [pc : {"called"},
             originalUrl : {NoRest} \cup {Some(s) : s \in Strings(MaxUrlLen)},
             url : Strings(MaxUrlLen),
             result : {<<>>}]

NextMount == MountUrlCall

SpecMount == InitMount /\ [][NextMount]_vars


(***************************************************************************)
(* Properties                                                              *)
(***************************************************************************)

\* The middleware chain in the order of its app.use calls.
Chain == <<"static", "sw", "hbs", "routes", "flat">>

Answered(r) == req[r].pc = "done"

\* The flat handler was called for request r.
Resolved(r) == \E i \in 1..Len(req[r].trail) : req[r].trail[i] = "flat"

\* Request r was answered by rendering an AMP popup.
AmpRendered(r) ==
  /\ Answered(r)
  /\ req[r].outcomes = <<"render">>
  /\ req[r].scope.layout = "amp"

\* The flat handler of request r got a rest that `if (rest)` accepts.
RestPresent(r) == req[r].rest.def /\ req[r].rest.s # <<>>

EntityIds == DOMAIN sessions \cup DOMAIN speakers

Preloaded == prodAmpCss # CssUndefined

\* C1: a request whose path is not in the section list is passed to the
\* next handler, whatever its rest is, and render is never called for it.
C1_NonSectionPassesThrough ==
  \A r \in Req :
    (Resolved(r) /\ req[r].path \notin sections) =>
      /\ Answered(r)
      /\ req[r].outcomes = <<"next">>
      /\ req[r].view = ""
      /\ req[r].header = ""
      /\ ~req[r].lessInvoked

C1_Witness ==
  \E r \in Req :
    /\ Resolved(r)
    /\ req[r].path = "_amp-session"
    /\ req[r].rest = Some(Str_42)
    /\ req[r].outcomes = <<"next">>

\* C2: for a valid section and a present rest that does not start with "_",
\* an id of a session renders the session popup (body class schedule-popup,
\* payload the session record) also when it is an id of a speaker too, and
\* the speaker popup (body class speaker-popup, payload the speaker record)
\* is rendered only for an id of a speaker that is not an id of a session.
C2_SessionBeforeSpeaker ==
  \A r \in Req :
    ( /\ Resolved(r)
      /\ Answered(r)
      /\ req[r].path \in sections
      /\ RestPresent(r)
      /\ req[r].rest.s[1] # "_" ) =>
      /\ req[r].rest.s \in DOMAIN sessions =>
           /\ req[r].outcomes = <<"render">>
           /\ req[r].view = "_amp-session"
           /\ req[r].scope.bodyClass = "schedule-popup"
           /\ req[r].scope.payload = sessions[req[r].rest.s]
      /\ req[r].view = "_amp-speaker" =>
           /\ req[r].rest.s \in DOMAIN speakers
           /\ req[r].rest.s \notin DOMAIN sessions
           /\ req[r].scope.bodyClass = "speaker-popup"
           /\ req[r].scope.payload = speakers[req[r].rest.s]

C2_Witness ==
  \E r, q \in Req :
    /\ AmpRendered(r)
    /\ req[r].rest = Some(Str_both)
    /\ req[r].view = "_amp-session"
    /\ AmpRendered(q)
    /\ req[q].rest = Some(Str_jake)
    /\ req[q].view = "_amp-speaker"

\* C3: for a valid section and a present rest that starts with "_" or is a
\* key of neither map, the handler passes the request on: no render, no
\* Feature-Policy header, no call of the preprocessor, no write of the slot.
C3_UnknownIdDeclines ==
  \A r \in Req :
    ( /\ Resolved(r)
      /\ req[r].path \in sections
      /\ RestPresent(r)
      /\ req[r].rest.s[1] = "_" \/ req[r].rest.s \notin EntityIds ) =>
      /\ Answered(r)
      /\ req[r].outcomes = <<"next">>
      /\ req[r].view = ""
      /\ req[r].header = ""
      /\ ~req[r].lessInvoked
      /\ ~req[r].wroteSlot

\* C4: in production without a preloaded stylesheet, an AMP request handled
\* after an AMP request that compiled has completed gets the stylesheet the
\* first one compiled and does not call the preprocessor; with a preloaded
\* stylesheet no request calls the preprocessor.
C4_SecondRequestReusesCss ==
  /\ (isProd /\ ~Preloaded) =>
       \A r1, r2 \in Req :
         ( /\ AmpRendered(r1)
           /\ req[r1].lessInvoked
           /\ r1 \in req[r2].after
           /\ req[r2].pc = "less" \/ AmpRendered(r2) ) =>
           /\ AmpRendered(r2)
           /\ ~req[r2].lessInvoked
           /\ req[r2].scope.styles = req[r1].scope.styles
  /\ Preloaded =>
       /\ lessCalls = 0
       /\ \A r \in Req : ~req[r].lessInvoked /\ req[r].pc # "less"

C4_Witness ==
  /\ isProd
  /\ ~Preloaded
  /\ lessCalls = 1
  /\ \E r1, r2 \in Req :
       /\ AmpRendered(r1)
       /\ req[r1].lessInvoked
       /\ r1 \in req[r2].after
       /\ AmpRendered(r2)
       /\ req[r2].scope.styles = CssCompiled

\* C5 (as stated): in either mode and under every interleaving the
\* stylesheet is compiled at most once and the slot is written at most once,
\* and with the production preload it is never compiled.
C5_CompiledAtMostOnce ==
  /\ lessCalls <= 1
  /\ slotWrites <= 1
  /\ Preloaded => lessCalls = 0

\* C5 (amended): with the production preload the stylesheet is never
\* compiled and the slot never written; in production without it, no request
\* starts a compile once the slot has been written, each compile is one
\* call per request that found the slot empty, and each completed compile
\* writes the slot once; in non-production mode the slot is never written and
\* every AMP request compiles.
C5_NoCompileAfterWrite ==
  /\ Preloaded => lessCalls = 0 /\ slotWrites = 0
  /\ lessCalls = Cardinality({r \in Req : req[r].lessInvoked})
  /\ slotWrites = Cardinality({r \in Req : req[r].wroteSlot})
  /\ \A r \in Req : req[r].lessInvoked =>
       \A q \in req[r].after : ~req[q].wroteSlot
  /\ isProd => \A r \in Req : (AmpRendered(r) /\ req[r].lessInvoked) => req[r].wroteSlot
  /\ ~isProd =>
       /\ slotWrites = 0
       /\ \A r \in Req : AmpRendered(r) => req[r].lessInvoked

C5_Witness ==
  /\ isProd
  /\ ~Preloaded
  /\ lessCalls = 2
  /\ slotWrites = 2
  /\ \A r \in Req : AmpRendered(r)


\* C6 (as stated): every response produced by rendering a template, the
\* sitemap included, carries the Feature-Policy header, set before the
\* render call to the policy string computed at startup.
C6_EveryRenderHasPolicy ==
  \A r \in Req :
    req[r].outcomes = <<"render">> => req[r].renderHeader = policy(isProd)

\* C6 (amended): every response the flat handler renders (a section page, a
\* session or speaker AMP popup) carries the Feature-Policy header, set
\* before the render call to the policy string computed at startup; the
\* sitemap is rendered without that header.
C6_FlatRenderHasPolicy ==
  \A r \in Req :
    req[r].outcomes = <<"render">> =>
      /\ Resolved(r) => req[r].renderHeader = policy(isProd)
      /\ ~Resolved(r) =>
           /\ req[r].view = "_sitemap"
           /\ req[r].renderHeader = ""
           /\ req[r].header = ""

C6_Witness ==
  \E r, q \in Req :
    /\ AmpRendered(r)
    /\ req[r].renderHeader = policy(isProd)
    /\ Answered(q)
    /\ req[q].view \in {"index", "schedule"}
    /\ req[q].renderHeader = policy(isProd)

IsPrefix(s, t) == Len(s) <= Len(t) /\ s = SubSeq(t, 1, Len(s))

Occurrences(o, u) ==
  { k \in 0..Len(o) :
      /\ k + Len(u) <= Len(o)
      /\ \A i \in 1..Len(u) : o[k + i] = u[i] }

\* C8: mountUrl returns "" when originalUrl is undefined and when url does
\* not occur in originalUrl; otherwise it returns the part of originalUrl
\* before the last occurrence of url, which is a prefix of originalUrl and
\* is empty when the two URLs are equal.
C8_MountUrlPrefix ==
  mu.pc = "returned" =>
    LET o == mu.originalUrl.s
        u == mu.url
        occ == Occurrences(o, u)
    IN
      /\ ~mu.originalUrl.def => mu.result = <<>>
      /\ (mu.originalUrl.def /\ occ = {}) => mu.result = <<>>
      /\ (mu.originalUrl.def /\ occ # {}) =>
           LET last == CHOOSE k \in occ : \A j \in occ : j <= k IN
             /\ Len(mu.result) = last
             /\ \A i \in 1..last : mu.result[i] = o[i]
             /\ IsPrefix(mu.result, o)
      /\ (mu.originalUrl.def /\ o = u) => mu.result = <<>>

C8_Witness ==
  /\ mu.pc = "returned"
  /\ mu.originalUrl = Some(<<"/", "a", "/">>)
  /\ mu.url = <<"/">>
  /\ mu.result = <<"/", "a">>

\* C9 (as stated): every AMP page rendered has a defined stylesheet (the
\* preloaded one when there is one), and once every compiling request has
\* finished the cache slot holds the compiled stylesheet, and a written slot
\* is never undefined again.
C9_RaceEndsWithSlotFilled ==
  /\ \A r \in Req : AmpRendered(r) =>
       /\ req[r].scope.styles # CssUndefined
       /\ Preloaded => req[r].scope.styles = prodAmpCss
  /\ ( /\ \A r \in Req : req[r].pc # "less"
       /\ \E r \in Req : AmpRendered(r) /\ req[r].lessInvoked ) =>
       fallbackProdAmpCss = CssCompiled
  /\ slotWrites > 0 => fallbackProdAmpCss # CssUndefined

\* C9 (amended): every AMP page rendered has a defined stylesheet (the
\* preloaded one when there is one, otherwise the cached or the freshly
\* compiled one); in production mode, once every compiling request has
\* finished the cache slot holds the compiled stylesheet, and a written slot
\* is never undefined again; in non-production mode the slot stays undefined.
C9_RaceEndsWithSlotFilledInProd ==
  /\ \A r \in Req : AmpRendered(r) =>
       /\ req[r].scope.styles # CssUndefined
       /\ Preloaded => req[r].scope.styles = prodAmpCss
       /\ ~Preloaded => req[r].scope.styles = CssCompiled
  /\ ( /\ isProd
       /\ \A r \in Req : req[r].pc # "less"
       /\ \E r \in Req : AmpRendered(r) /\ req[r].lessInvoked ) =>
       fallbackProdAmpCss = CssCompiled
  /\ slotWrites > 0 => fallbackProdAmpCss = CssCompiled
  /\ ~isProd => fallbackProdAmpCss = CssUndefined

\* Two requests compiled at the same time in production and both finished.
C9_Witness ==
  /\ isProd
  /\ \E r, q \in Req :
       /\ r # q
       /\ AmpRendered(r) /\ req[r].lessInvoked /\ r \notin req[q].after
       /\ AmpRendered(q) /\ req[q].lessInvoked /\ q \notin req[r].after
  /\ fallbackProdAmpCss = CssCompiled

\* C10 (as stated): after the first AMP request that compiles has completed
\* the slot holds the compiled stylesheet in production and non-production
\* mode alike, and a later AMP request reuses it instead of recompiling.
C10_SlotFilledInBothModes ==
  \A r \in Req :
    (AmpRendered(r) /\ req[r].lessInvoked) =>
      /\ fallbackProdAmpCss = CssCompiled
      /\ \A q \in Req : r \in req[q].after => ~req[q].lessInvoked

\* C10 (amended): after the first AMP request that compiles has completed
\* the slot holds the compiled stylesheet in production mode, where a later
\* AMP request reuses it instead of recompiling; in non-production mode the
\* slot stays undefined and a later AMP request compiles again.
C10_SlotFilledInProdOnly ==
  \A r \in Req :
    (AmpRendered(r) /\ req[r].lessInvoked) =>
      /\ isProd =>
           /\ fallbackProdAmpCss = CssCompiled
           /\ \A q \in Req : r \in req[q].after =>
                /\ ~req[q].lessInvoked
                /\ AmpRendered(q) => req[q].scope.styles = CssCompiled
      /\ ~isProd =>
           /\ fallbackProdAmpCss = CssUndefined
           /\ \A q \in Req : (r \in req[q].after /\ AmpRendered(q)) =>
                req[q].lessInvoked

C10_Witness ==
  /\ ~isProd
  /\ \E r, q \in Req :
       /\ AmpRendered(r) /\ req[r].lessInvoked
       /\ r \in req[q].after
       /\ AmpRendered(q) /\ req[q].lessInvoked

====
